---- MODULE Spec2Model ----
(***************************************************************************)
(* The HVAC dashboard script app.py as a state machine.                    *)
(*                                                                         *)
(* One run of the script is: read the page selector, load hvac_updated.csv *)
(* into the data frame df, derive hour/day_of_week/month_year, then        *)
(* execute the branch of the selected page statement by statement.  An     *)
(* uncaught Python exception ends the run (pc = "aborted"); a widget       *)
(* interaction re-runs the script from the top (Rerun).  The chart and     *)
(* widget-rendering calls are presentation and are not modelled; the       *)
(* names they read are.                                                    *)
(*                                                                         *)
(* Numbers: timestamps are whole seconds since 1970-01-01 (pandas keeps    *)
(* nanoseconds since the same epoch); temperatures are tenths of a degree, *)
(* loads and percentages are fixed-point integers.  A missing number is    *)
(* NaN, a missing categorical value is NA.  A mean is kept exactly, as the *)
(* pair sum/count.  Strings that pandas orders are compared through their  *)
(* character codes.                                                        *)
(***************************************************************************)
EXTENDS Integers, Sequences, FiniteSets, TLC

VARIABLES csv, page, pc, df, ns, error, warning, interval, selected_zone

vars == <<csv, page, pc, df, ns, error, warning, interval, selected_zone>>

\* ------------------------------------------------------------------ bounds
MaxRows == 3
MaxKpiRows == 4
MaxCallRows == 2

\* ------------------------------------------------------------ missing values
NaN == -1
NA == "<NA>"

IsNum(v) == v # NaN

\* ---------------------------------------------------------------- sequences
RECURSIVE SumSeq(_)
SumSeq(s) == IF s = <<>> THEN 0 ELSE Head(s) + SumSeq(Tail(s))

RECURSIVE MaxSeq(_)
MaxSeq(s) ==
    IF Len(s) = 1 THEN Head(s)
    ELSE LET m == MaxSeq(Tail(s)) IN IF Head(s) >= m THEN Head(s) ELSE m

Range(s) == {s[i] : i \in DOMAIN s}

Column(rows, c) == [i \in DOMAIN rows |-> rows[i][c]]

Perms(s) ==
    {p \in [DOMAIN s -> DOMAIN s] : \A i, j \in DOMAIN s : i # j => p[i] # p[j]}

Permute(s, p) == [i \in DOMAIN s |-> s[p[i]]]

\* ------------------------------------------------------------------ strings
LexLess(a, b) ==
    \E i \in 1..(Len(a) + 1) :
        /\ \A j \in 1..(i - 1) : j <= Len(b) /\ a[j] = b[j]
        /\ \/ i = Len(a) + 1 /\ Len(b) >= i
           \/ i <= Len(a) /\ i <= Len(b) /\ a[i] < b[i]

\* str: the character codes of the categorical values and day names in use
Codes(s) ==
    CASE s = "Z1" -> <<90, 49>>
      [] s = "Z2" -> <<90, 50>>
      [] s = "Z3" -> <<90, 51>>
      [] s = "Office" -> <<79, 102, 102, 105, 99, 101>>
      [] s = "Lab" -> <<76, 97, 98>>
      [] s = "Work" -> <<87, 111, 114, 107>>
      [] s = "Storage" -> <<83, 116, 111, 114, 97, 103, 101>>
      [] s = "Auto" -> <<65, 117, 116, 111>>
      [] s = "Manual" -> <<77, 97, 110, 117, 97, 108>>
      [] s = "Monday" -> <<77, 111, 110, 100, 97, 121>>
      [] s = "Tuesday" -> <<84, 117, 101, 115, 100, 97, 121>>
      [] s = "Wednesday" -> <<87, 101, 100, 110, 101, 115, 100, 97, 121>>
      [] s = "Thursday" -> <<84, 104, 117, 114, 115, 100, 97, 121>>
      [] s = "Friday" -> <<70, 114, 105, 100, 97, 121>>
      [] s = "Saturday" -> <<83, 97, 116, 117, 114, 100, 97, 121>>
      [] s = "Sunday" -> <<83, 117, 110, 100, 97, 121>>

\* The elements of S in increasing order of their keys (character codes
\* compared as str compares, or a number as a one-element key).
SetToSeq(S, key) ==
    [i \in 1..Cardinality(S) |->
        CHOOSE x \in S : Cardinality({y \in S : LexLess(key[y], key[x])}) = i - 1]

SortedStrings(S) == SetToSeq(S, [x \in S |-> Codes(x)])

SortedNumbers(S) == SetToSeq(S, [x \in S |-> <<x>>])

Digit(n) == 48 + n

Digits2(n) == <<Digit(n \div 10), Digit(n % 10)>>

Digits4(n) ==
    <<Digit(n \div 1000), Digit((n \div 100) % 10), Digit((n \div 10) % 10), Digit(n % 10)>>

Dash == <<45>>

MonthAbbr ==
    << <<74, 97, 110>>, <<70, 101, 98>>, <<77, 97, 114>>, <<65, 112, 114>>,
       <<77, 97, 121>>, <<74, 117, 110>>, <<74, 117, 108>>, <<65, 117, 103>>,
       <<83, 101, 112>>, <<79, 99, 116>>, <<78, 111, 118>>, <<68, 101, 99>> >>

\* --------------------------------------------------------------- timestamps
SecondsPerDay == 86400
SecondsPerHour == 3600
SecondsPerMinute == 60

\* Days since 1970-01-01 of a civil date (proleptic Gregorian calendar).
DaysFromCivil(y, m, d) ==
    LET yy == IF m <= 2 THEN y - 1 ELSE y
        era == yy \div 400
        yoe == yy - era * 400
        mp == IF m > 2 THEN m - 3 ELSE m + 9
        doy == (153 * mp + 2) \div 5 + d - 1
        doe == yoe * 365 + yoe \div 4 - yoe \div 100 + doy
    IN era * 146097 + doe - 719468

Timestamp(y, m, d, h, mi, s) ==
    DaysFromCivil(y, m, d) * SecondsPerDay + h * SecondsPerHour + mi * SecondsPerMinute + s

\* The civil date of a day number: [year, month, day].
CivilFromDays(days) ==
    LET z == days + 719468
        era == z \div 146097
        doe == z - era * 146097
        yoe == (doe - doe \div 1460 + doe \div 36524 - doe \div 146096) \div 365
        doy == doe - (365 * yoe + yoe \div 4 - yoe \div 100)
        mp == (5 * doy + 2) \div 153
        d == doy - (153 * mp + 2) \div 5 + 1
        m == IF mp < 10 THEN mp + 3 ELSE mp - 9
    IN [year |-> yoe + era * 400 + (IF m <= 2 THEN 1 ELSE 0), month |-> m, day |-> d]

DayNames ==
    <<"Monday", "Tuesday", "Wednesday", "Thursday", "Friday", "Saturday", "Sunday">>

\* Series.dt.hour
HourOf(t) == (t % SecondsPerDay) \div SecondsPerHour

\* Series.dt.day_name(): 1970-01-01 was a Thursday.
DayNameOf(t) == DayNames[(((t \div SecondsPerDay) + 3) % 7) + 1]

\* Series.dt.strftime('%b-%Y'): "Jan-2024"
MonthLabelOf(t) ==
    LET c == CivilFromDays(t \div SecondsPerDay)
    IN MonthAbbr[c.month] \o Dash \o Digits4(c.year)

\* The month bucket written as the display label "Jan-2024".
MonthYearAsLabel(t) == MonthLabelOf(t)

\* Series.dt.to_period("M").astype(str): "YYYY-MM"
MonthYearOf(t) ==
    LET c == CivilFromDays(t \div SecondsPerDay)
    IN Digits4(c.year) \o Dash \o Digits2(c.month)

\* Series.dt.date, as the day number
DateOf(t) == t \div SecondsPerDay

\* floor to the minute in place of the hour
FloorMinute(t) == t - (t % SecondsPerMinute)

\* Series.dt.floor('H') and Series.dt.floor('D')
FloorHour(t) == t - (t % SecondsPerHour)

FloorDay(t) == t - (t % SecondsPerDay)

\* pd.to_datetime of a column that read_csv already parsed to datetime64
ToDatetime(t) == t

\* ---------------------------------------------------------------- data frame
SourceColumns ==
    {"timestamp", "zone_id", "zone_type", "zone_function", "zoning_mode",
     "occupancy_pct", "standard_setpoint", "adjusted_setpoint",
     "actual_cooling_load_kWh", "baseline_cooling_load",
     "optimized_cooling_load_kWh", "predicted_cooling_load_kWh",
     "rolling_avg_occupancy_3h", "rolling_max_occupancy_6h"}

\* df[name] = vals: the column is appended, or replaced when it exists.
AssignColumn(d, name, vals) ==
    [cols |-> d.cols \cup {name},
     rows |-> [i \in DOMAIN d.rows |->
                 [c \in d.cols \cup {name} |->
                     IF c = name THEN vals[i] ELSE d.rows[i][c]]]]

\* pd.read_csv(..., parse_dates=["timestamp"]): the timestamp text
\* <<year, month, day, hour, minute, second>> becomes seconds since the epoch.
ParseDate(txt) == Timestamp(txt[1], txt[2], txt[3], txt[4], txt[5], txt[6])

ReadCsv(file) ==
    [cols |-> file.cols,
     rows |-> [i \in DOMAIN file.rows |->
                 [c \in file.cols |->
                     IF c = "timestamp" THEN ParseDate(file.rows[i][c])
                     ELSE file.rows[i][c]]]]

\* Lines 13-18: the frame every page starts from.
LoadData(file) ==
    LET d0 == ReadCsv(file)
        ts == Column(d0.rows, "timestamp")
        d1 == AssignColumn(d0, "hour", [i \in DOMAIN ts |-> HourOf(ts[i])])
        d2 == AssignColumn(d1, "day_of_week", [i \in DOMAIN ts |-> DayNameOf(ts[i])])
    IN AssignColumn(d2, "month_year", [i \in DOMAIN ts |-> MonthYearOf(ts[i])])

\* ------------------------------------------------------------- aggregations
\* Series.sum(): missing values are skipped, the empty sum is 0.
SumOf(vals) == SumSeq(SelectSeq(vals, IsNum))

\* Series.mean(): missing values are skipped; the mean is kept as sum/n, and
\* n = 0 is the NaN that the mean of nothing is.
MeanOf(vals) ==
    LET present == SelectSeq(vals, IsNum)
    IN [sum |-> SumSeq(present), n |-> Len(present)]

\* Series.max(): missing values are skipped, the max of nothing is NaN.
MaxOf(vals) ==
    LET present == SelectSeq(vals, IsNum)
    IN IF present = <<>> THEN NaN ELSE MaxSeq(present)

\* The keys of a categorical column that groupby keeps (dropna=True), sorted.
GroupKeys(rows, key) ==
    SortedStrings({rows[i][key] : i \in DOMAIN rows} \ {NA})

RowsOfGroup(rows, key, k) == SelectSeq(rows, LAMBDA r : r[key] = k)

\* df.groupby(key)[val].sum().reset_index() over the sorted keys
GroupSum(rows, key, keys, val) ==
    [i \in DOMAIN keys |->
        (key :> keys[i]) @@ (val :> SumOf(Column(RowsOfGroup(rows, key, keys[i]), val)))]

\* ------------------------------------------------- Executive Summary (21-108)
ComfortLow == 220
ComfortHigh == 250

\* Line 28 with the band's ends left out.
ComfortComplianceExclusive(rows) ==
    LET ok == SelectSeq(Column(rows, "adjusted_setpoint"),
                        LAMBDA v : v > ComfortLow /\ v < ComfortHigh)
    IN [num |-> 100 * Len(ok), den |-> Len(rows)]

\* Line 28: the mean of the boolean series, times 100, as a fraction.
ComfortCompliancePct(rows) ==
    LET ok == SelectSeq(Column(rows, "adjusted_setpoint"),
                        LAMBDA v : v >= ComfortLow /\ v <= ComfortHigh)
    IN [num |-> 100 * Len(ok), den |-> Len(rows)]

\* The columns lines 25-28 read.
KpiColumns ==
    {"actual_cooling_load_kWh", "baseline_cooling_load",
     "optimized_cooling_load_kWh", "occupancy_pct", "adjusted_setpoint"}

\* KpiSummary that also totals the predicted load.
KpiSummaryReadsPredicted(d) ==
    IF KpiColumns \cup {"predicted_cooling_load_kWh"} \subseteq d.cols
    THEN [error |-> "none",
          defs |-> ("total_actual_energy" :> SumOf(Column(d.rows, "actual_cooling_load_kWh")))
                   @@ ("total_energy_saved" :>
                         (SumOf(Column(d.rows, "baseline_cooling_load"))
                            - SumOf(Column(d.rows, "optimized_cooling_load_kWh"))))
                   @@ ("average_occupancy_pct" :> MeanOf(Column(d.rows, "occupancy_pct")))
                   @@ ("comfort_compliance_pct" :> ComfortCompliancePct(d.rows))]
    ELSE [error |-> "KeyError", defs |-> <<>>]

\* Lines 25-28, statement by statement: the names defined before the first
\* statement that reads an absent column, and whether one did.
KpiSummary(d) ==
    LET has(c) == c \in d.cols
        col(c) == Column(d.rows, c)
        n1 == "total_actual_energy" :> SumOf(col("actual_cooling_load_kWh"))
        n2 == "total_energy_saved" :>
                (SumOf(col("baseline_cooling_load")) - SumOf(col("optimized_cooling_load_kWh")))
        n3 == "average_occupancy_pct" :> MeanOf(col("occupancy_pct"))
        n4 == "comfort_compliance_pct" :> ComfortCompliancePct(d.rows)
    IN IF ~has("actual_cooling_load_kWh") THEN [error |-> "KeyError", defs |-> <<>>]
       ELSE IF ~(has("baseline_cooling_load") /\ has("optimized_cooling_load_kWh"))
            THEN [error |-> "KeyError", defs |-> n1]
       ELSE IF ~has("occupancy_pct") THEN [error |-> "KeyError", defs |-> n1 @@ n2]
       ELSE IF ~has("adjusted_setpoint") THEN [error |-> "KeyError", defs |-> n1 @@ n2 @@ n3]
       ELSE [error |-> "none", defs |-> n1 @@ n2 @@ n3 @@ n4]

\* Line 48 aggregating with max() in place of sum().
ZoneEnergyGroupedMax(d) ==
    LET keys == GroupKeys(d.rows, "zone_id")
    IN [i \in DOMAIN keys |->
          ("zone_id" :> keys[i]) @@
          ("actual_cooling_load_kWh" :>
              MaxOf(Column(RowsOfGroup(d.rows, "zone_id", keys[i]), "actual_cooling_load_kWh")))]

\* Line 48
ZoneEnergyGrouped(d) ==
    GroupSum(d.rows, "zone_id", GroupKeys(d.rows, "zone_id"), "actual_cooling_load_kWh")

IsSortedDescending(t, c) == \A i, j \in DOMAIN t : i < j => t[i][c] >= t[j][c]

\* Line 49: sort_values(ascending=False) with the default, unstable, sort:
\* every descending arrangement of the grouped rows.
SortValuesDescending(t, c) ==
    {s \in {Permute(t, p) : p \in Perms(t)} : IsSortedDescending(s, c)}

\* Line 70
FunctionShare(d) ==
    GroupSum(d.rows, "zone_function", GroupKeys(d.rows, "zone_function"),
             "actual_cooling_load_kWh")

\* The month_year keys, in the order groupby sorts the strings.
MonthKeys(rows) ==
    LET keys == {rows[i]["month_year"] : i \in DOMAIN rows}
    IN SetToSeq(keys, [k \in keys |-> k])

\* Line 91
MonthlyTrend(d) ==
    GroupSum(d.rows, "month_year", MonthKeys(d.rows), "actual_cooling_load_kWh")

\* --------------------------------------------------------- Occupancy (112-144)
DaysOrder == DayNames

\* Line 119: groupby (day_of_week, hour), mean of occupancy_pct; groups whose
\* mean is missing are dropped before unstacking, so an index or column key
\* exists only for a day or hour that has a value.
PivotTable(d) ==
    LET valued == SelectSeq(d.rows, LAMBDA r : IsNum(r["occupancy_pct"]))
        days == SortedStrings({valued[i]["day_of_week"] : i \in DOMAIN valued})
        hours == SortedNumbers({valued[i]["hour"] : i \in DOMAIN valued})
    IN [index |-> days,
        columns |-> hours,
        cell |-> [dy \in Range(days) |-> [h \in Range(hours) |->
                    MeanOf(Column(SelectSeq(valued,
                        LAMBDA r : r["day_of_week"] = dy /\ r["hour"] = h), "occupancy_pct"))]]]

\* Line 121: DataFrame.reindex(labels) on the rows; a label the table lacks
\* gets a row of missing values.  The columns are left as they are.
Reindex(t, labels) ==
    [index |-> labels,
     columns |-> t.columns,
     cell |-> [dy \in Range(labels) |-> [h \in Range(t.columns) |->
                 IF dy \in Range(t.index) THEN t.cell[dy][h] ELSE MeanOf(<<>>)]]]

OccupancyHeatmapMatrix(d) == Reindex(PivotTable(d), DaysOrder)

\* ------------------------------------- Setpoint & Comfort Monitoring (147-239)
IntervalOptions == {"Hourly", "Daily"}

GroupColOptions == {"zone_type", "zone_function"}

\* Lines 157-160
FloorTo(iv, t) == IF iv = "Hourly" THEN FloorHour(t) ELSE FloorDay(t)

\* Lines 151-160 with the floored value written over df['timestamp'] too.
SetTimeGroupInPlace(d, iv) ==
    LET ts == Column(d.rows, "timestamp")
        d1 == AssignColumn(d, "timestamp", [i \in DOMAIN ts |-> FloorTo(iv, ts[i])])
    IN AssignColumn(d1, "time_group", [i \in DOMAIN ts |-> FloorTo(iv, ts[i])])

\* Lines 151-160: df['timestamp'] and df['time_group'] are assigned.
SetTimeGroup(d, iv) ==
    LET ts == Column(d.rows, "timestamp")
        d1 == AssignColumn(d, "timestamp", [i \in DOMAIN ts |-> ToDatetime(ts[i])])
    IN AssignColumn(d1, "time_group", [i \in DOMAIN ts |-> FloorTo(iv, ts[i])])

\* Line 163: df['zone_id'].unique(), a missing value included
Zones(d) == {d.rows[i]["zone_id"] : i \in DOMAIN d.rows}

\* Line 164: sorted() compares a str with the float nan
SortedRaises(zs) == NA \in zs /\ Cardinality(zs) >= 2

\* Line 166: a comparison with a missing value is False
ZoneFilter(d, z) == SelectSeq(d.rows, LAMBDA r : r["zone_id"] # NA /\ r["zone_id"] = z)

\* Lines 169-172
SetpointGrouped(rows) ==
    LET keys == SortedNumbers({rows[i]["time_group"] : i \in DOMAIN rows})
        grp(k) == SelectSeq(rows, LAMBDA r : r["time_group"] = k)
    IN [i \in DOMAIN keys |->
          [time_group |-> keys[i],
           standard_setpoint |-> MeanOf(Column(grp(keys[i]), "standard_setpoint")),
           adjusted_setpoint |-> MeanOf(Column(grp(keys[i]), "adjusted_setpoint"))]]

\* Line 221: df.dropna(subset=[group_col, "adjusted_setpoint"]), a new frame
SetpointDistribution(d, g) ==
    [cols |-> d.cols,
     rows |-> SelectSeq(d.rows, LAMBDA r : r[g] # NA /\ IsNum(r["adjusted_setpoint"]))]

\* ---------------------------------- Forecasting Model and Evaluation (242-310)
ForecastColumns == {"actual_cooling_load_kWh", "predicted_cooling_load_kWh"}

\* Line 249: abs(a - p), missing when either is
AbsError(a, p) ==
    IF IsNum(a) /\ IsNum(p) THEN (IF a >= p THEN a - p ELSE p - a) ELSE NaN

\* Lines 249-254
ForecastErrorTable(d) ==
    LET a == Column(d.rows, "actual_cooling_load_kWh")
        p == Column(d.rows, "predicted_cooling_load_kWh")
        d1 == AssignColumn(d, "prediction_error", [i \in DOMAIN a |-> AbsError(a[i], p[i])])
        ts == Column(d.rows, "timestamp")
        d2 == AssignColumn(d1, "timestamp", [i \in DOMAIN ts |-> ToDatetime(ts[i])])
    IN IF "timestamp" \in d.cols
       THEN AssignColumn(d2, "Month", [i \in DOMAIN ts |-> MonthLabelOf(ts[i])])
       ELSE d1

\* ---------------------------------------------- Operational Overview (313-386)
RollingColumns == {"rolling_avg_occupancy_3h", "rolling_max_occupancy_6h"}

\* Lines 320-323
SetDate(d) ==
    LET ts == Column(d.rows, "timestamp")
        d1 == AssignColumn(d, "timestamp", [i \in DOMAIN ts |-> ToDatetime(ts[i])])
    IN AssignColumn(d1, "date", [i \in DOMAIN ts |-> DateOf(ts[i])])

\* Lines 326-329
DailyRollingSummary(d) ==
    LET keys == SortedNumbers({d.rows[i]["date"] : i \in DOMAIN d.rows})
        grp(k) == SelectSeq(d.rows, LAMBDA r : r["date"] = k)
    IN [i \in DOMAIN keys |->
          [date |-> keys[i],
           rolling_avg_occupancy_3h |->
               MeanOf(Column(grp(keys[i]), "rolling_avg_occupancy_3h")),
           rolling_max_occupancy_6h |->
               MaxOf(Column(grp(keys[i]), "rolling_max_occupancy_6h"))]]

\* Lines 372-373: value_counts() drops missing values and orders by count,
\* descending; the order among equal counts is the sort's.
ZoningCounts(d) ==
    LET modes == GroupKeys(d.rows, "zoning_mode")
        counted == [i \in DOMAIN modes |->
                      [mode |-> modes[i],
                       count |-> Len(RowsOfGroup(d.rows, "zoning_mode", modes[i]))]]
    IN {s \in {Permute(counted, p) : p \in Perms(counted)} :
            \A i, j \in DOMAIN s : i < j => s[i].count >= s[j].count}

\* ------------------------------------------------------------------- inputs
FileRow(ts, z, zt, zf, zm, occ, std, adj, act, base, opt, pred, ravg, rmax) ==
    [timestamp |-> ts, zone_id |-> z, zone_type |-> zt, zone_function |-> zf,
     zoning_mode |-> zm, occupancy_pct |-> occ, standard_setpoint |-> std,
     adjusted_setpoint |-> adj, actual_cooling_load_kWh |-> act,
     baseline_cooling_load |-> base, optimized_cooling_load_kWh |-> opt,
     predicted_cooling_load_kWh |-> pred, rolling_avg_occupancy_3h |-> ravg,
     rolling_max_occupancy_6h |-> rmax]

\* Records of hvac_updated.csv: two zones and a row without a zone, three
\* months over a year's end, two rows in one hour and three on one day.
RowPool ==
    << FileRow(<<2024, 1, 1, 10, 15, 0>>, "Z1", "Office", "Work", "Auto",
               40, 240, 220, 10, 14, 9, 12, 30, 50),
       FileRow(<<2024, 1, 1, 10, 45, 0>>, "Z1", "Office", "Work", "Manual",
               60, 240, 251, 20, 25, 18, 17, 50, 70),
       FileRow(<<2024, 1, 1, 11, 5, 30>>, "Z1", "Office", "Work", "Auto",
               NaN, 230, NaN, 5, 6, 5, NaN, 20, 20),
       FileRow(<<2023, 12, 31, 23, 50, 0>>, NA, "Lab", NA, NA,
               10, 225, 219, 7, 8, 6, 7, NaN, 10),
       FileRow(<<2024, 2, 6, 10, 20, 0>>, "Z2", "Lab", "Storage", "Manual",
               80, 235, 250, 20, 30, 15, 26, 60, 90) >>

\* Four rows that differ in adjusted_setpoint only, around the comfort band.
KpiPool ==
    << FileRow(<<2024, 1, 1, 10, 15, 0>>, "Z1", "Office", "Work", "Auto",
               40, 240, 219, 10, 14, 9, 12, 30, 50),
       FileRow(<<2024, 1, 1, 10, 15, 0>>, "Z1", "Office", "Work", "Auto",
               40, 240, 220, 10, 14, 9, 12, 30, 50),
       FileRow(<<2024, 1, 1, 10, 15, 0>>, "Z1", "Office", "Work", "Auto",
               40, 240, 250, 10, 14, 9, 12, 30, 50),
       FileRow(<<2024, 1, 1, 10, 15, 0>>, "Z1", "Office", "Work", "Auto",
               40, 240, 251, 10, 14, 9, 12, 30, 50),
       FileRow(<<2024, 1, 1, 10, 15, 0>>, "Z2", "Lab", "Storage", "Manual",
               40, 240, NaN, 10, 14, 9, 12, 30, 50) >>

\* The columns a file may lack.
DropChoices ==
    {{}} \cup {{c} : c \in SourceColumns}
         \cup {{"predicted_cooling_load_kWh", "rolling_max_occupancy_6h"}}

KpiDropChoices == {{}, {"adjusted_setpoint"}}

\* The files of 1..maxRows records of the pool, lacking one of the drops.
Files(pool, maxRows, drops) ==
    UNION { { [cols |-> SourceColumns \ dr,
               rows |-> [i \in 1..n |-> [c \in SourceColumns \ dr |-> pool[ix[i]][c]]]] :
                 ix \in [1..n -> DOMAIN pool], dr \in drops } : n \in 1..maxRows }

\* -------------------------------------------------------------------- state
Pages ==
    {"Executive Summary", "Occupancy", "Setpoint & Comfort Monitoring",
     "Forecasting Model and Evaluation", "Operational Overview"}

FirstStep(p) ==
    CASE p = "Executive Summary" -> "kpi"
      [] p = "Occupancy" -> "heatmap"
      [] p = "Setpoint & Comfort Monitoring" -> "time_group"
      [] p = "Forecasting Model and Evaluation" -> "forecast"
      [] p = "Operational Overview" -> "daily"

NoFrame == [cols |-> {}, rows |-> <<>>]

Fresh ==
    /\ page = ""
    /\ pc = "start"
    /\ df = NoFrame
    /\ ns = <<>>
    /\ error = "none"
    /\ warning = {}
    /\ interval = ""
    /\ selected_zone = ""

Init == csv \in Files(RowPool, MaxRows, DropChoices) /\ Fresh

InitKpi == csv \in Files(KpiPool, MaxKpiRows, KpiDropChoices) /\ Fresh

\* An uncaught exception ends the run where it is raised.
Raise(e) == pc' = "aborted" /\ error' = e

Goto(step) == pc' = step /\ error' = error

Define(name, value) == ns' = ns @@ (name :> value)

\* Lines 10-18; read_csv raises when the parse_dates column is absent.
Load ==
    /\ pc = "start"
    /\ \E p \in Pages :
          /\ page' = p
          /\ IF "timestamp" \in csv.cols
             THEN df' = LoadData(csv) /\ Goto(FirstStep(p))
             ELSE df' = df /\ Raise("ValueError")
    /\ UNCHANGED <<csv, ns, warning, interval, selected_zone>>

\* Lines 25-28
KpiCalculations ==
    /\ pc = "kpi"
    /\ LET k == KpiSummary(df)
       IN /\ ns' = ns @@ k.defs
          /\ IF k.error = "none" THEN Goto("zone_energy") ELSE Raise(k.error)
    /\ UNCHANGED <<csv, page, df, warning, interval, selected_zone>>

\* Lines 48-49
ZoneEnergyTotals ==
    /\ pc = "zone_energy"
    /\ IF "zone_id" \in df.cols
       THEN /\ \E t \in SortValuesDescending(ZoneEnergyGrouped(df), "actual_cooling_load_kWh") :
                 Define("zone_energy_df", t)
            /\ Goto("function_share")
       ELSE Raise("KeyError") /\ ns' = ns
    /\ UNCHANGED <<csv, page, df, warning, interval, selected_zone>>

\* Line 70
ZoneFunctionShare ==
    /\ pc = "function_share"
    /\ IF "zone_function" \in df.cols
       THEN Define("function_df", FunctionShare(df)) /\ Goto("monthly_trend")
       ELSE Raise("KeyError") /\ ns' = ns
    /\ UNCHANGED <<csv, page, df, warning, interval, selected_zone>>

\* Line 91
MonthlyTrendStep ==
    /\ pc = "monthly_trend"
    /\ Define("monthly_trend_df", MonthlyTrend(df))
    /\ Goto("done")
    /\ UNCHANGED <<csv, page, df, warning, interval, selected_zone>>

\* Lines 119-121
OccupancyHeatmap ==
    /\ pc = "heatmap"
    /\ IF "occupancy_pct" \in df.cols
       THEN Define("pivot_df", OccupancyHeatmapMatrix(df)) /\ Goto("done")
       ELSE Raise("KeyError") /\ ns' = ns
    /\ UNCHANGED <<csv, page, df, warning, interval, selected_zone>>

\* Lines 151-160
SetpointTimeGroup ==
    /\ pc = "time_group"
    /\ \E iv \in IntervalOptions : interval' = iv /\ df' = SetTimeGroup(df, iv)
    /\ Goto("select_zone")
    /\ UNCHANGED <<csv, page, ns, warning, selected_zone>>

\* Lines 163-164
SetpointSelectZone ==
    /\ pc = "select_zone"
    /\ IF "zone_id" \notin df.cols THEN Raise("KeyError") /\ selected_zone' = selected_zone
       ELSE IF SortedRaises(Zones(df)) THEN Raise("TypeError") /\ selected_zone' = selected_zone
       ELSE (\E z \in Zones(df) : selected_zone' = z) /\ Goto("group")
    /\ UNCHANGED <<csv, page, df, ns, warning, interval>>

\* Lines 166-172
SetpointGroup ==
    /\ pc = "group"
    /\ IF {"standard_setpoint", "adjusted_setpoint"} \subseteq df.cols
       THEN /\ ns' = ns @@ ("df_zone" :> ZoneFilter(df, selected_zone))
                       @@ ("df_grouped" :> SetpointGrouped(ZoneFilter(df, selected_zone)))
            /\ Goto("trend_chart")
       ELSE /\ ns' = ns @@ ("df_zone" :> ZoneFilter(df, selected_zone))
            /\ Raise("KeyError")
    /\ UNCHANGED <<csv, page, df, warning, interval, selected_zone>>

\* Lines 195-239: the chart reads df_melted, a name no statement of the script
\* assigns; lines 219-221 follow it in the branch.
SetpointTrendChart ==
    /\ pc = "trend_chart"
    /\ IF "df_melted" \notin DOMAIN ns THEN Raise("NameError") /\ ns' = ns
       ELSE \E g \in GroupColOptions :
              IF g \in df.cols
              THEN Define("df_filtered", SetpointDistribution(df, g)) /\ Goto("done")
              ELSE Raise("KeyError") /\ ns' = ns
    /\ UNCHANGED <<csv, page, df, warning, interval, selected_zone>>

\* Lines 246-310
ForecastEvaluation ==
    /\ pc = "forecast"
    /\ IF ForecastColumns \subseteq df.cols
       THEN df' = ForecastErrorTable(df) /\ warning' = warning
       ELSE df' = df /\ warning' = ForecastColumns
    /\ Goto("done")
    /\ UNCHANGED <<csv, page, ns, interval, selected_zone>>

\* Lines 320-329
DailyRolling ==
    /\ pc = "daily"
    /\ df' = SetDate(df)
    /\ IF RollingColumns \subseteq df.cols
       THEN Define("daily_df", DailyRollingSummary(SetDate(df))) /\ Goto("zoning")
       ELSE Raise("KeyError") /\ ns' = ns
    /\ UNCHANGED <<csv, page, warning, interval, selected_zone>>

\* Lines 371-386
ZoningModeFrequency ==
    /\ pc = "zoning"
    /\ IF "zoning_mode" \in df.cols
       THEN (\E t \in ZoningCounts(df) : Define("zoning_counts", t)) /\ warning' = warning
       ELSE ns' = ns /\ warning' = {"zoning_mode"}
    /\ Goto("done")
    /\ UNCHANGED <<csv, page, df, interval, selected_zone>>

\* A widget interaction: the script runs again from the top.
Rerun ==
    /\ pc \in {"done", "aborted"}
    /\ page' = ""
    /\ pc' = "start"
    /\ df' = NoFrame
    /\ ns' = <<>>
    /\ error' = "none"
    /\ warning' = {}
    /\ interval' = ""
    /\ selected_zone' = ""
    /\ UNCHANGED csv

Next ==
    \/ Load
    \/ KpiCalculations
    \/ ZoneEnergyTotals
    \/ ZoneFunctionShare
    \/ MonthlyTrendStep
    \/ OccupancyHeatmap
    \/ SetpointTimeGroup
    \/ SetpointSelectZone
    \/ SetpointGroup
    \/ SetpointTrendChart
    \/ ForecastEvaluation
    \/ DailyRolling
    \/ ZoningModeFrequency
    \/ Rerun

Spec == Init /\ [][Next]_vars

SpecKpi == InitKpi /\ [][Next]_vars

\* ----------------------------------------- the operation called on its own
\* setpointTimeSeries (lines 157-172) as a function of the frame, the interval
\* and the zone, with the interval any value a caller may pass.
IntervalInputs == IntervalOptions \cup {"Weekly"}

InitCall ==
    /\ csv \in Files(RowPool, MaxCallRows, {{}})
    /\ page = "Setpoint & Comfort Monitoring"
    /\ pc = "call"
    /\ df = LoadData(csv)
    /\ ns = <<>>
    /\ error = "none"
    /\ warning = {}
    /\ interval = ""
    /\ selected_zone = ""

CallSetpointTimeSeries ==
    /\ pc = "call"
    /\ \E iv \in IntervalInputs, z \in Zones(df) \ {NA} :
          /\ interval' = iv
          /\ selected_zone' = z
          /\ df' = SetTimeGroup(df, iv)
          /\ ns' = ("df_grouped" :> SetpointGrouped(ZoneFilter(SetTimeGroup(df, iv), z)))
    /\ pc' = "returned"
    /\ UNCHANGED <<csv, page, error, warning>>

NextCall == CallSetpointTimeSeries

SpecCall == InitCall /\ [][NextCall]_vars

\* =================================================================== claims
Ended == pc \in {"done", "aborted"}

Defined(name) == name \in DOMAIN ns

KpiNames ==
    {"total_actual_energy", "total_energy_saved", "average_occupancy_pct",
     "comfort_compliance_pct"}

ForecastRunEndedWithoutColumn ==
    /\ page = "Forecasting Model and Evaluation"
    /\ pc = "done"
    /\ ~(ForecastColumns \subseteq csv.cols)

C2_Original ==
    (page = "Operational Overview" /\ Ended /\ error # "ValueError"
        /\ "zoning_mode" \in csv.cols) => Defined("zoning_counts")

SetpointsOfFile == [i \in DOMAIN csv.rows |-> csv.rows[i]["adjusted_setpoint"]]

\* C3: comfort_compliance_pct is 100 * (rows with 22.0 <= adjusted_setpoint
\* <= 25.0, both ends included) / (all rows of the dataset); the setpoints
\* 21.9, 22.0, 25.0, 25.1 give 50%.
C3_ComfortCompliance ==
    Defined("comfort_compliance_pct") =>
        LET pct == ns["comfort_compliance_pct"]
            compliant == {i \in DOMAIN csv.rows :
                            SetpointsOfFile[i] # NaN
                            /\ 220 <= SetpointsOfFile[i] /\ SetpointsOfFile[i] <= 250}
        IN /\ pct.den = Len(csv.rows)
           /\ pct.num = 100 * Cardinality(compliant)
           /\ SetpointsOfFile = <<219, 220, 250, 251>> => pct.num = 50 * pct.den

C3_Witness ==
    /\ Defined("comfort_compliance_pct")
    /\ SetpointsOfFile = <<219, 220, 250, 251>>
    /\ ns["comfort_compliance_pct"] = [num |-> 200, den |-> 4]

LoadsOfFile == [i \in DOMAIN csv.rows |-> csv.rows[i]["actual_cooling_load_kWh"]]

ZoneSums == Column(ns["zone_energy_df"], "actual_cooling_load_kWh")

\* C4 as stated: the per-zone sums add up to the sum of
\* actual_cooling_load_kWh over all rows, rows without a zone_id included.
C4_Original ==
    Defined("zone_energy_df") => SumSeq(ZoneSums) = SumOf(LoadsOfFile)

\* C4 amended: the per-zone sums add up to the sum of actual_cooling_load_kWh
\* over the rows that have a zone_id (groupby leaves out a row whose zone_id
\* is missing), and there is one row per zone_id present.
C4_ZoneConservation ==
    Defined("zone_energy_df") =>
        LET t == ns["zone_energy_df"]
            zoned == SelectSeq(csv.rows, LAMBDA r : r["zone_id"] # NA)
        IN /\ SumSeq(ZoneSums) = SumOf(Column(zoned, "actual_cooling_load_kWh"))
           /\ {t[i]["zone_id"] : i \in DOMAIN t} = {zoned[i]["zone_id"] : i \in DOMAIN zoned}
           /\ Len(t) = Cardinality({zoned[i]["zone_id"] : i \in DOMAIN zoned})

C4_Witness ==
    /\ Defined("zone_energy_df")
    /\ Len(ns["zone_energy_df"]) = 2
    /\ \E i, j \in DOMAIN csv.rows :
          i # j /\ csv.rows[i]["zone_id"] = NA /\ csv.rows[j]["zone_id"] = "Z1"
    /\ SumSeq(ZoneSums) < SumOf(LoadsOfFile)

\* The calendar month of record i of the file, as months since year 0.
MonthOfFileRow(i) == csv.rows[i]["timestamp"][1] * 12 + csv.rows[i]["timestamp"][2]

\* C5: monthlyTrend has one row per calendar month of the data, in
\* chronological order (year, then month), each with the sum of that month's
\* loads; the bucket key depends on the timestamp's month alone; and every
\* permutation of the rows gives the same table.
C5_MonthlyTrend ==
    Defined("monthly_trend_df") =>
        LET t == ns["monthly_trend_df"]
            n == Len(csv.rows)
            members(i) == {a \in 1..n : df.rows[a]["month_year"] = t[i]["month_year"]}
        IN /\ \A a, b \in 1..n :
                 (df.rows[a]["month_year"] = df.rows[b]["month_year"])
                     <=> (MonthOfFileRow(a) = MonthOfFileRow(b))
           /\ Len(t) = Cardinality({MonthOfFileRow(a) : a \in 1..n})
           /\ \A i \in DOMAIN t : members(i) # {}
           /\ \A a \in 1..n : \E i \in DOMAIN t : a \in members(i)
           /\ \A i, j \in DOMAIN t : i < j =>
                 \A a \in members(i), b \in members(j) :
                     MonthOfFileRow(a) < MonthOfFileRow(b)
           /\ \A i \in DOMAIN t :
                 t[i]["actual_cooling_load_kWh"] =
                     SumOf([a \in 1..n |->
                              IF a \in members(i) THEN LoadsOfFile[a] ELSE NaN])
           /\ \A p \in Perms(df.rows) :
                 MonthlyTrend([df EXCEPT !.rows = Permute(df.rows, p)]) = t

C5_Witness ==
    /\ Defined("monthly_trend_df")
    /\ Len(ns["monthly_trend_df"]) = 3
    /\ MonthOfFileRow(1) > MonthOfFileRow(2)
    /\ MonthOfFileRow(2) > MonthOfFileRow(3)

Hours == [h \in 1..24 |-> h - 1]

\* C6 as stated: the heatmap matrix has the 7 weekday rows Monday..Sunday in
\* that order and the 24 columns 0..23 whichever hours occur in the data; a
\* cell is the mean occupancy_pct of its (weekday, hour), missing when the
\* pair has no record.
C6_Original ==
    Defined("pivot_df") =>
        LET t == ns["pivot_df"]
        IN /\ t.index = DaysOrder
           /\ t.columns = Hours
           /\ \A dy \in Range(DaysOrder), h \in Range(Hours) :
                 t.cell[dy][h] =
                     MeanOf([a \in DOMAIN df.rows |->
                               IF df.rows[a]["day_of_week"] = dy /\ df.rows[a]["hour"] = h
                               THEN df.rows[a]["occupancy_pct"] ELSE NaN])

StampOfFileRow(a) == csv.rows[a]["timestamp"]

\* The timestamp text of record a with the parts finer than the interval zeroed.
FlooredStamp(a) ==
    LET x == StampOfFileRow(a)
    IN IF interval = "Hourly" THEN <<x[1], x[2], x[3], x[4], 0, 0>>
       ELSE <<x[1], x[2], x[3], 0, 0, 0>>

\* C7: time_group is the timestamp with minutes and seconds zeroed (hourly)
\* or hours, minutes and seconds zeroed (daily), so two rows share a bucket
\* exactly when they agree on date and hour, or on date; the output has one
\* row per bucket of the selected zone, with the means of that bucket's rows
\* of that zone and of no other row.
C7_SetpointTimeSeries ==
    Defined("df_grouped") =>
        LET t == ns["df_grouped"]
            n == Len(csv.rows)
            zone == {a \in 1..n : csv.rows[a]["zone_id"] # NA
                                   /\ csv.rows[a]["zone_id"] = selected_zone}
            bucket(i) == {a \in zone : df.rows[a]["time_group"] = t[i]["time_group"]}
            mean(i, c) ==
                [sum |-> SumOf([a \in 1..n |->
                                  IF a \in bucket(i) THEN csv.rows[a][c] ELSE NaN]),
                 n |-> Cardinality({a \in bucket(i) : csv.rows[a][c] # NaN})]
        IN /\ interval \in {"Hourly", "Daily"}
           /\ \A a \in 1..n : df.rows[a]["time_group"] = ParseDate(FlooredStamp(a))
           /\ \A a, b \in 1..n :
                 (df.rows[a]["time_group"] = df.rows[b]["time_group"])
                     <=> (FlooredStamp(a) = FlooredStamp(b))
           /\ Len(t) = Cardinality({df.rows[a]["time_group"] : a \in zone})
           /\ \A i \in DOMAIN t : bucket(i) # {}
           /\ \A a \in zone : \E i \in DOMAIN t : a \in bucket(i)
           /\ \A i \in DOMAIN t :
                 /\ t[i]["standard_setpoint"] = mean(i, "standard_setpoint")
                 /\ t[i]["adjusted_setpoint"] = mean(i, "adjusted_setpoint")

C7_Witness ==
    /\ Defined("df_grouped")
    /\ interval = "Hourly"
    /\ selected_zone = "Z1"
    /\ Len(csv.rows) = 3
    /\ StampOfFileRow(1) = <<2024, 1, 1, 10, 15, 0>>
    /\ StampOfFileRow(2) = <<2024, 1, 1, 10, 45, 0>>
    /\ csv.rows[3]["zone_id"] = "Z2"
    /\ ns["df_grouped"] =
          << [time_group |-> Timestamp(2024, 1, 1, 10, 0, 0),
              standard_setpoint |-> [sum |-> 480, n |-> 2],
              adjusted_setpoint |-> [sum |-> 471, n |-> 2]] >>

SourcePart(d) ==
    [cols |-> d.cols \cap SourceColumns,
     rows |-> [i \in DOMAIN d.rows |->
                 [c \in d.cols \cap SourceColumns |-> d.rows[i][c]]]]

DerivedColumns ==
    {"hour", "day_of_week", "month_year", "time_group", "prediction_error", "Month", "date"}

\* C9: at every point of every run that loaded the file, the frame has the
\* rows it was loaded with and every column of the file holds its loaded
\* value in every row; the columns added are derived ones; a row left out of
\* an aggregate (the zone filter, the null-drop) is left out of that table
\* only.
C9_DatasetUnchanged ==
    (pc # "start" /\ error # "ValueError") =>
        /\ SourcePart(df) = ReadCsv(csv)
        /\ Len(df.rows) = Len(csv.rows)
        /\ (df.cols \ SourceColumns) \subseteq DerivedColumns
        /\ Defined("df_zone") => Range(ns["df_zone"]) \subseteq Range(df.rows)
        /\ Defined("df_filtered") => Range(ns["df_filtered"].rows) \subseteq Range(df.rows)

C9_Witness ==
    /\ page = "Setpoint & Comfort Monitoring"
    /\ Defined("df_zone")
    /\ Len(ns["df_zone"]) < Len(df.rows)
    /\ "time_group" \in df.cols
    /\ \E a \in DOMAIN df.rows : df.rows[a]["time_group"] # df.rows[a]["timestamp"]

\* A file with every column and no missing value.
Complete(file) ==
    /\ file.cols = SourceColumns
    /\ \A i \in DOMAIN file.rows :
          /\ \A c \in {"zone_id", "zone_type", "zone_function", "zoning_mode"} :
                file.rows[i][c] # NA
          /\ \A c \in SourceColumns \ {"timestamp", "zone_id", "zone_type",
                                       "zone_function", "zoning_mode"} :
                file.rows[i][c] # NaN

\* C10 as stated, as the final result of a run: on a dataset with every
\* column, a run of any page ends without an error, and a run of the
\* Setpoint & Comfort Monitoring page ends with the setpoint distribution
\* computed.
C10_Original ==
    (Ended /\ Complete(csv)) =>
        /\ error = "none"
        /\ page = "Setpoint & Comfort Monitoring" => Defined("df_filtered")

====
